---- MODULE Spec2Model ----
(***************************************************************************)
(* Model of the request admission and session authentication layer of     *)
(* slop-checker: the client identity resolver (lib/requestIdentity.ts),   *)
(* the signed session token (lib/session.ts), the rate limit check        *)
(* (lib/rateLimit.ts, in its two versions) and the handlers that call     *)
(* them (app/api/session GET, app/api/analyze POST).                      *)
(*                                                                         *)
(* A JavaScript string is a sequence of one-character strings.  An absent *)
(* value (null, undefined) and the empty string are both the empty        *)
(* sequence: every place of the code that reads one tests it with         *)
(* "if (!value)" / "if (value)", which does not tell the two apart.       *)
(***************************************************************************)
EXTENDS Integers, Sequences, FiniteSets, TLC

VARIABLES
    now,          \* Date.now(), in model milliseconds
    secret,       \* process.env.ANALYZE_SESSION_SECRET
    held,         \* the session the client holds: the token of the last
                  \* issuance response and the cookie it set
    res,          \* the outcome of the last session operation
    ratelimit,    \* lib/redis.ts: "configured" (a Ratelimit) or "null"
    rateLimitModule, \* which lib/rateLimit.ts the build resolves
    store,        \* the shared store: per identifier, the window bookkeeping
    resp,         \* the outcome of the last handled analyze request
    handlers,     \* the checkRateLimit calls in progress, one per handler
    permits,      \* per ClientIdentity, the time of the store operation of
                  \* the last call that was allowed
    resolved      \* the request metadata given to getClientIdentifier and
                  \* what it returned

vars ==
    <<now, secret, held, res, ratelimit, rateLimitModule, store, resp, handlers,
      permits, resolved>>

(***************************************************************************)
(* Bounds of the model.                                                    *)
(***************************************************************************)
MaxTime == 3
TickMs == 10000

(***************************************************************************)
(* Strings.                                                                *)
(***************************************************************************)
\* The index of the first occurrence of character c in s, 0 when there is none.
RECURSIVE IndexFrom(_, _, _)
IndexFrom(s, c, i) ==
    IF i > Len(s) THEN 0
    ELSE IF s[i] = c THEN i
    ELSE IndexFrom(s, c, i + 1)

\* String.prototype.split(sep) for a one-character separator.
RECURSIVE Split(_, _)
Split(s, sep) ==
    LET i == IndexFrom(s, sep, 1)
    IN  IF i = 0 THEN <<s>>
        ELSE <<SubSeq(s, 1, i - 1)>> \o Split(SubSeq(s, i + 1, Len(s)), sep)

\* Array.prototype.join(sep) of an array of strings.
RECURSIVE Join(_, _)
Join(parts, sep) ==
    IF Len(parts) = 0 THEN <<>>
    ELSE IF Len(parts) = 1 THEN parts[1]
    ELSE parts[1] \o <<sep>> \o Join(Tail(parts), sep)

Digits == <<"0", "1", "2", "3", "4", "5", "6", "7", "8", "9">>

IsDigit(c) == \E d \in 1..10 : Digits[d] = c

DigitValue(c) == (CHOOSE d \in 1..10 : Digits[d] = c) - 1

IsWhiteSpace(c) == c = " "

\* String.prototype.trim().
RECURSIVE TrimStart(_)
TrimStart(s) ==
    IF Len(s) > 0 /\ IsWhiteSpace(s[1]) THEN TrimStart(Tail(s)) ELSE s

RECURSIVE TrimEnd(_)
TrimEnd(s) ==
    IF Len(s) > 0 /\ IsWhiteSpace(s[Len(s)])
    THEN TrimEnd(SubSeq(s, 1, Len(s) - 1))
    ELSE s

Trim(s) == TrimEnd(TrimStart(s))

\* The value of the longest prefix of decimal digits of s, read left to right
\* from accumulator acc.
RECURSIVE DigitsPrefix(_, _)
DigitsPrefix(s, acc) ==
    IF Len(s) > 0 /\ IsDigit(s[1])
    THEN DigitsPrefix(Tail(s), acc * 10 + DigitValue(s[1]))
    ELSE acc

\* Number.parseInt(s, 10): leading white space is skipped, one sign is read,
\* then the longest run of digits; what follows the digits is ignored; NaN when
\* there is no digit.
ParseInt(s) ==
    LET t == TrimStart(s)
        neg == Len(t) > 0 /\ t[1] = "-"
        signed == Len(t) > 0 /\ t[1] \in {"-", "+"}
        u == IF signed THEN Tail(t) ELSE t
    IN  IF Len(u) = 0 \/ ~IsDigit(u[1])
        THEN [nan |-> TRUE, n |-> 0]
        ELSE [nan |-> FALSE,
              n |-> IF neg THEN 0 - DigitsPrefix(u, 0) ELSE DigitsPrefix(u, 0)]

\* String(n) of an integer.
RECURSIVE NatToString(_)
NatToString(n) ==
    IF n < 10 THEN <<Digits[n + 1]>>
    ELSE NatToString(n \div 10) \o <<Digits[(n % 10) + 1]>>

NumberToString(n) == IF n < 0 THEN <<"-">> \o NatToString(0 - n) ELSE NatToString(n)

(***************************************************************************)
(* lib/requestIdentity.ts                                                  *)
(***************************************************************************)
FALLBACK_IDENTIFIER == <<"u", "n", "k", "n", "o", "w", "n">>

Ipv4MappedPrefix == <<":", ":", "f", "f", "f", "f", ":">>

StartsWith(s, p) == Len(s) >= Len(p) /\ SubSeq(s, 1, Len(p)) = p

\* A value returned as it came.
stripIpv6Prefix_None(value) == value

\* value.replace(/^::ffff:/, '')
stripIpv6Prefix(value) ==
    IF StartsWith(value, Ipv4MappedPrefix)
    THEN SubSeq(value, Len(Ipv4MappedPrefix) + 1, Len(value))
    ELSE value

\* The proxy headers looked at before the direct peer address.
getClientIdentifier_HeadersFirst(request) ==
    IF request.realIp # <<>> THEN stripIpv6Prefix(request.realIp)
    ELSE IF request.forwardedFor # <<>>
            /\ Trim(Split(request.forwardedFor, ",")[1]) # <<>>
         THEN stripIpv6Prefix(Trim(Split(request.forwardedFor, ",")[1]))
    ELSE IF request.ip # <<>> THEN stripIpv6Prefix(request.ip)
    ELSE FALLBACK_IDENTIFIER

\* request: [ip, realIp, forwardedFor, header, cookie]; ip is request.ip,
\* realIp and forwardedFor the x-real-ip and x-forwarded-for headers.
getClientIdentifier(request) ==
    IF request.ip # <<>> THEN stripIpv6Prefix(request.ip)
    ELSE IF request.realIp # <<>> THEN stripIpv6Prefix(request.realIp)
    ELSE IF request.forwardedFor # <<>>
            /\ Trim(Split(request.forwardedFor, ",")[1]) # <<>>
         THEN stripIpv6Prefix(Trim(Split(request.forwardedFor, ",")[1]))
    ELSE FALLBACK_IDENTIFIER

(***************************************************************************)
(* lib/session.ts                                                          *)
(***************************************************************************)
TOKEN_SEPARATOR == "."

\* The session lifetime of lib/sessionConstants.ts, in model milliseconds.
SESSION_MAX_AGE_MS == 2

NoSecretError == "ANALYZE_SESSION_SECRET is not configured"

\* A secret that is never found missing.
getSessionSecretThrows_Never(sec) == FALSE

\* getSessionSecret throws when the secret is unset or empty.
getSessionSecretThrows(sec) == sec = <<>>

\* The text of a MAC output: ".", "#" and "~" of the input are escaped, so that the
\* output holds no separator and different inputs give different outputs.
RECURSIVE Escape(_)
Escape(s) ==
    IF Len(s) = 0 THEN <<>>
    ELSE (IF s[1] = "." THEN <<"~", "d">>
          ELSE IF s[1] = "#" THEN <<"~", "h">>
          ELSE IF s[1] = "~" THEN <<"~", "~">>
          ELSE <<s[1]>>) \o Escape(Tail(s))

\* crypto.createHmac('sha256', key).update(value).digest('base64url'), as an
\* ideal MAC: a function of the key and the message that is one-to-one, and
\* whose output is computable only from the key.
Hmac(key, value) == <<"#">> \o Escape(key) \o <<"#">> \o Escape(value)

\* signValue(value) under secret sec (the caller checks getSessionSecretThrows).
signValue(sec, value) == Hmac(sec, value)

\* issueSessionToken(request) with sessionId = crypto.randomUUID() and
\* t = Date.now().
issueSessionToken_SignsPeerAddress(request, sessionId, t, sec) ==
    LET clientId == IF request.ip # <<>> THEN request.ip
                    ELSE getClientIdentifier(request)
        base == Join(<<sessionId, NumberToString(t)>>, TOKEN_SEPARATOR)
    IN  IF getSessionSecretThrows(sec)
        THEN [threw |-> TRUE, token |-> <<>>, cookieValue |-> <<>>, expires |-> 0]
        ELSE [threw |-> FALSE,
              token |-> base,
              cookieValue |->
                  Join(<<base,
                         signValue(sec, Join(<<base, clientId>>, TOKEN_SEPARATOR))>>,
                       TOKEN_SEPARATOR),
              expires |-> t + SESSION_MAX_AGE_MS]

issueSessionToken(request, sessionId, t, sec) ==
    LET clientId == getClientIdentifier(request)
        base == Join(<<sessionId, NumberToString(t)>>, TOKEN_SEPARATOR)
    IN  IF getSessionSecretThrows(sec)
        THEN [threw |-> TRUE, token |-> <<>>, cookieValue |-> <<>>, expires |-> 0]
        ELSE [threw |-> FALSE,
              token |-> base,
              cookieValue |->
                  Join(<<base,
                         signValue(sec, Join(<<base, clientId>>, TOKEN_SEPARATOR))>>,
                       TOKEN_SEPARATOR),
              expires |-> t + SESSION_MAX_AGE_MS]

NoParts == [ok |-> FALSE, sessionId |-> <<>>, issuedAt |-> 0, signature |-> <<>>]

\* Three fields or more, the first three read.
parseParts_AtLeastThree(value) ==
    IF value = <<>> THEN NoParts
    ELSE LET parts == Split(value, TOKEN_SEPARATOR)
         IN  IF Len(parts) < 3 THEN NoParts
             ELSE LET issuedAt == ParseInt(parts[2])
                  IN  IF parts[1] = <<>> \/ issuedAt.nan \/ parts[3] = <<>>
                      THEN NoParts
                      ELSE [ok |-> TRUE, sessionId |-> parts[1],
                            issuedAt |-> issuedAt.n, signature |-> parts[3]]

parseParts(value) ==
    IF value = <<>> THEN NoParts
    ELSE LET parts == Split(value, TOKEN_SEPARATOR)
         IN  IF Len(parts) # 3 THEN NoParts
             ELSE LET issuedAt == ParseInt(parts[2])
                  IN  IF parts[1] = <<>> \/ issuedAt.nan \/ parts[3] = <<>>
                      THEN NoParts
                      ELSE [ok |-> TRUE, sessionId |-> parts[1],
                            issuedAt |-> issuedAt.n, signature |-> parts[3]]

\* parsedCookie.sessionId !== sessionId || parsedCookie.issuedAt !== issuedAt
tokensMismatch_SessionIdOnly(parsedCookie, sessionId, issuedAt) ==
    parsedCookie.sessionId # sessionId

tokensMismatch(parsedCookie, sessionId, issuedAt) ==
    parsedCookie.sessionId # sessionId \/ parsedCookie.issuedAt # issuedAt

\* A token that expires when its age reaches the lifetime.
isExpired_AtBoundary(t, issuedAt) == t - issuedAt >= SESSION_MAX_AGE_MS

\* Date.now() - issuedAt > SESSION_MAX_AGE_MS
isExpired_InSeconds(t, issuedAt) == (t - issuedAt) \div 1000 > SESSION_MAX_AGE_MS

isExpired(t, issuedAt) == t - issuedAt > SESSION_MAX_AGE_MS

\* expectedBuffer.length !== providedBuffer.length ||
\* !crypto.timingSafeEqual(expectedBuffer, providedBuffer), negated.
BuffersEqual_LengthOnly(expected, provided) == Len(expected) = Len(provided)

BuffersEqual(expected, provided) ==
    /\ Len(expected) = Len(provided)
    /\ \A i \in 1..Len(expected) : expected[i] = provided[i]

Outcome(valid, error, threw, signed) ==
    [valid |-> valid, error |-> error, threw |-> threw, signed |-> signed]

\* The header decoded before the cookie is looked at.
verifySessionToken_HeaderFirst(request, t, sec) ==
    LET headerValue == request.header
        parsedCookie == parseParts(request.cookie)
        headerParts == Split(headerValue, TOKEN_SEPARATOR)
        sessionId == headerParts[1]
        issuedAt == ParseInt(headerParts[2])
        clientId == getClientIdentifier(request)
        expectedSignature ==
            signValue(sec, Join(<<parsedCookie.sessionId,
                                  NumberToString(parsedCookie.issuedAt),
                                  clientId>>, TOKEN_SEPARATOR))
    IN  IF headerValue = <<>>
        THEN Outcome(FALSE, "Missing session token", FALSE, FALSE)
        ELSE IF Len(headerParts) # 2
        THEN Outcome(FALSE, "Malformed session token", FALSE, FALSE)
        ELSE IF sessionId = <<>> \/ issuedAt.nan
        THEN Outcome(FALSE, "Malformed session token", FALSE, FALSE)
        ELSE IF ~parsedCookie.ok
        THEN Outcome(FALSE, "Missing or invalid session cookie", FALSE, FALSE)
        ELSE IF tokensMismatch(parsedCookie, sessionId, issuedAt.n)
        THEN Outcome(FALSE, "Session token mismatch", FALSE, FALSE)
        ELSE IF isExpired(t, issuedAt.n)
        THEN Outcome(FALSE, "Session token expired", FALSE, FALSE)
        ELSE IF getSessionSecretThrows(sec)
        THEN Outcome(FALSE, NoSecretError, TRUE, TRUE)
        ELSE IF ~BuffersEqual(expectedSignature, parsedCookie.signature)
        THEN Outcome(FALSE, "Session token verification failed", FALSE, TRUE)
        ELSE Outcome(TRUE, "", FALSE, TRUE)

\* verifySessionToken(request) at Date.now() = t under secret sec.  signed tells
\* whether signValue was called; threw whether it threw.
verifySessionToken(request, t, sec) ==
    LET headerValue == request.header
        parsedCookie == parseParts(request.cookie)
        headerParts == Split(headerValue, TOKEN_SEPARATOR)
        sessionId == headerParts[1]
        issuedAt == ParseInt(headerParts[2])
        clientId == getClientIdentifier(request)
        expectedSignature ==
            signValue(sec, Join(<<parsedCookie.sessionId,
                                  NumberToString(parsedCookie.issuedAt),
                                  clientId>>, TOKEN_SEPARATOR))
    IN  IF headerValue = <<>>
        THEN Outcome(FALSE, "Missing session token", FALSE, FALSE)
        ELSE IF ~parsedCookie.ok
        THEN Outcome(FALSE, "Missing or invalid session cookie", FALSE, FALSE)
        ELSE IF Len(headerParts) # 2
        THEN Outcome(FALSE, "Malformed session token", FALSE, FALSE)
        ELSE IF sessionId = <<>> \/ issuedAt.nan
        THEN Outcome(FALSE, "Malformed session token", FALSE, FALSE)
        ELSE IF tokensMismatch(parsedCookie, sessionId, issuedAt.n)
        THEN Outcome(FALSE, "Session token mismatch", FALSE, FALSE)
        ELSE IF isExpired(t, issuedAt.n)
        THEN Outcome(FALSE, "Session token expired", FALSE, FALSE)
        ELSE IF getSessionSecretThrows(sec)
        THEN Outcome(FALSE, NoSecretError, TRUE, TRUE)
        ELSE IF ~BuffersEqual(expectedSignature, parsedCookie.signature)
        THEN Outcome(FALSE, "Session token verification failed", FALSE, TRUE)
        ELSE Outcome(TRUE, "", FALSE, TRUE)

(***************************************************************************)
(* lib/redis.ts and lib/rateLimit.ts                                       *)
(***************************************************************************)
\* Ratelimit.slidingWindow(1, '30 s')
RATE_LIMIT_TOKENS == 1
RATE_LIMIT_WINDOW_MS == 30000

\* ratelimit is constructed only when both environment variables are set.
ratelimitOf(restUrl, restToken) ==
    IF restUrl /\ restToken THEN "configured" ELSE "null"

EmptyStore == [k \in {} |-> 0]

\* A fixed window in place of the sliding one: a permit is granted when the
\* identifier has had none in the window of the clock that holds t.
limit_FixedWindow(st, identifier, t) ==
    IF identifier \in DOMAIN st
       /\ st[identifier] \div RATE_LIMIT_WINDOW_MS = t \div RATE_LIMIT_WINDOW_MS
    THEN [success |-> FALSE, limit |-> RATE_LIMIT_TOKENS,
          reset |-> ((t \div RATE_LIMIT_WINDOW_MS) + 1) * RATE_LIMIT_WINDOW_MS,
          remaining |-> 0, store |-> st]
    ELSE [success |-> TRUE, limit |-> RATE_LIMIT_TOKENS,
          reset |-> ((t \div RATE_LIMIT_WINDOW_MS) + 1) * RATE_LIMIT_WINDOW_MS,
          remaining |-> RATE_LIMIT_TOKENS - 1,
          store |-> [k \in DOMAIN st \cup {identifier} |->
                        IF k = identifier THEN t ELSE st[k]]]

\* ratelimit.limit(identifier) at time t on store st, one atomic operation of
\* the shared store: a permit is granted when the identifier has had none in
\* the window that ends at t.  st maps an identifier to the time of its last
\* permit.
limit(st, identifier, t) ==
    IF identifier \in DOMAIN st /\ t - st[identifier] < RATE_LIMIT_WINDOW_MS
    THEN [success |-> FALSE, limit |-> RATE_LIMIT_TOKENS,
          reset |-> st[identifier] + RATE_LIMIT_WINDOW_MS, remaining |-> 0,
          store |-> st]
    ELSE [success |-> TRUE, limit |-> RATE_LIMIT_TOKENS,
          reset |-> t + RATE_LIMIT_WINDOW_MS,
          remaining |-> RATE_LIMIT_TOKENS - 1,
          store |-> [k \in DOMAIN st \cup {identifier} |->
                        IF k = identifier THEN t ELSE st[k]]]

\* What checkRateLimit returns, with whether it threw, how many store
\* operations it made and the store it leaves.
Decision(success, lim, reset, remaining, retryAfter, threw, storeCalls, st) ==
    [success |-> success, limit |-> lim, reset |-> reset,
     remaining |-> remaining, retryAfter |-> retryAfter, threw |-> threw,
     storeCalls |-> storeCalls, store |-> st]

Max(a, b) == IF a >= b THEN a ELSE b

\* The identifier read from the proxy headers as they come.
checkRateLimitIdentifier_RawHeader(request) ==
    IF request.forwardedFor # <<>> THEN request.forwardedFor
    ELSE IF request.realIp # <<>> THEN request.realIp
    ELSE <<"a", "n", "o", "n", "y", "m", "o", "u", "s">>

\* const identifier = getClientIdentifier(request)
checkRateLimitIdentifier(request) == getClientIdentifier(request)

\* The store call awaited outside any try block: its error propagates.
checkRateLimitReturn_Rethrows(r, storeFails, t, st) ==
    IF storeFails
    THEN Decision(FALSE, 0, 0, 0, 0, TRUE, 1, st)
    ELSE Decision(r.success, r.limit, r.reset, r.remaining,
                  IF r.reset # 0 THEN Max((r.reset - t) \div 1000, 0) ELSE 0,
                  FALSE, 1, r.store)

\* A failed store call repeated once, the answer of the second call returned.
checkRateLimitReturn_Retries(r, storeFails, t, st) ==
    Decision(r.success, r.limit, r.reset, r.remaining,
             IF r.reset # 0 THEN Max((r.reset - t) \div 1000, 0) ELSE 0,
             FALSE, IF storeFails THEN 2 ELSE 1, r.store)

\* The return of checkRateLimit once the store call has settled, at
\* Date.now() = t: r is what ratelimit.limit resolved to, storeFails tells
\* whether it rejected instead; st is the store before the call.
checkRateLimitReturn(r, storeFails, t, st) ==
    IF storeFails
    THEN Decision(FALSE, 0, t, 0, 60, FALSE, 1, st)
    ELSE Decision(r.success, r.limit, r.reset, r.remaining,
                  IF r.reset # 0 THEN Max((r.reset - t) \div 1000, 0) ELSE 0,
                  FALSE, 1, r.store)

\* checkRateLimit(request) of lib/rateLimit.ts at Date.now() = t; storeFails
\* tells whether the store call raises an error.
checkRateLimit(request, t, rl, st, storeFails) ==
    IF rl = "null"
    THEN Decision(FALSE, 0, t, 0, 30, FALSE, 0, st)
    ELSE checkRateLimitReturn(limit(st, checkRateLimitIdentifier(request), t),
                              storeFails, t, st)

\* The other lib/rateLimit.ts of the repository: the identifier is the raw
\* x-forwarded-for or x-real-ip header, or 'anonymous'.
checkRateLimitLegacyIdentifier(request) ==
    IF request.forwardedFor # <<>> THEN request.forwardedFor
    ELSE IF request.realIp # <<>> THEN request.realIp
    ELSE <<"a", "n", "o", "n", "y", "m", "o", "u", "s">>

\* Its return once the store call has settled: a store error is not caught,
\* and retryAfter is not clamped.
checkRateLimitLegacyReturn(r, storeFails, t, st) ==
    IF storeFails
    THEN Decision(FALSE, 0, 0, 0, 0, TRUE, 1, st)
    ELSE Decision(r.success, r.limit, r.reset, r.remaining,
                  IF r.reset # 0 THEN (r.reset - t) \div 1000 ELSE 0,
                  FALSE, 1, r.store)

\* checkRateLimit(request) of that module: without a limiter every request is
\* let through.
checkRateLimitLegacy(request, t, rl, st, storeFails) ==
    IF rl = "null"
    THEN Decision(TRUE, 999, t + 30000, 999, 0, FALSE, 0, st)
    ELSE checkRateLimitLegacyReturn(
             limit(st, checkRateLimitLegacyIdentifier(request), t),
             storeFails, t, st)

\* '@/lib/rateLimit' as the build resolves it.
rateLimitImport(module, request, t, rl, st, storeFails) ==
    IF module = "legacy"
    THEN checkRateLimitLegacy(request, t, rl, st, storeFails)
    ELSE checkRateLimit(request, t, rl, st, storeFails)

(***************************************************************************)
(* app/api/analyze/route.ts                                                *)
(***************************************************************************)
POST_MAX_LENGTH == 280
DISPLAY_NAME_MAX_LENGTH == 50
IMAGE_DATA_URL_MAX_LENGTH == 2900000

\* A JSON value: its typeof, its length and its length once trimmed (strings).
Value(t, len, trimmed) == [t |-> t, len |-> len, trimmed |-> trimmed]

Undefined == Value("undefined", 0, 0)
ANumber == Value("number", 0, 0)
StringOf(len) == Value("string", len, len)

\* JavaScript truthiness: undefined and the empty string are falsy; the number
\* and the objects of the model are truthy.
Truthy(v) == v.t # "undefined" /\ (v.t = "string" => v.len > 0)

\* The validation without the tests of displayName.
validateBody_PostOnly(body) ==
    IF ~Truthy(body.post) \/ body.post.t # "string"
    THEN "Invalid post content"
    ELSE IF body.post.len > POST_MAX_LENGTH
    THEN "Post exceeds 280 character limit"
    ELSE IF Truthy(body.image) /\ body.image.t # "object"
    THEN "Invalid image payload"
    ELSE IF body.image.t = "object" /\ Truthy(body.dataUrl)
            /\ body.dataUrl.t # "string"
    THEN "Invalid image data"
    ELSE IF body.image.t = "object" /\ Truthy(body.name)
            /\ body.name.t # "string"
    THEN "Invalid image name"
    ELSE IF body.image.t = "object" /\ Truthy(body.dataUrl)
            /\ body.dataUrl.len > IMAGE_DATA_URL_MAX_LENGTH
    THEN "Image data is too large. Please use an image under roughly 2MB."
    ELSE ""

\* The validation of the parsed body, in the order of the code: the error of
\* the first failing test, or "" when the body passes.
validateBody(body) ==
    IF ~Truthy(body.post) \/ body.post.t # "string"
    THEN "Invalid post content"
    ELSE IF body.post.len > POST_MAX_LENGTH
    THEN "Post exceeds 280 character limit"
    ELSE IF ~Truthy(body.displayName) \/ body.displayName.t # "string"
    THEN "Invalid display name"
    ELSE IF body.displayName.trimmed = 0
    THEN "Display name is required"
    ELSE IF body.displayName.len > DISPLAY_NAME_MAX_LENGTH
    THEN "Display name exceeds 50 character limit"
    ELSE IF Truthy(body.image) /\ body.image.t # "object"
    THEN "Invalid image payload"
    ELSE IF body.image.t = "object" /\ Truthy(body.dataUrl)
            /\ body.dataUrl.t # "string"
    THEN "Invalid image data"
    ELSE IF body.image.t = "object" /\ Truthy(body.name)
            /\ body.name.t # "string"
    THEN "Invalid image name"
    ELSE IF body.image.t = "object" /\ Truthy(body.dataUrl)
            /\ body.dataUrl.len > IMAGE_DATA_URL_MAX_LENGTH
    THEN "Image data is too large. Please use an image under roughly 2MB."
    ELSE ""

\* The answer of the handler: status, the retryAfter of the body and the four
\* rate limit headers (429 only), and whether the scoring call was made.
Answer(status, error, decision, scored) ==
    [status |-> status, error |-> error,
     retryAfter |-> IF status = 429 THEN decision.retryAfter ELSE 0,
     headers |-> IF status = 429
                 THEN [limit |-> decision.limit, remaining |-> decision.remaining,
                       reset |-> decision.reset, retryAfter |-> decision.retryAfter]
                 ELSE [limit |-> 0, remaining |-> 0, reset |-> 0, retryAfter |-> 0],
     scored |-> scored]

\* POST /api/analyze, given what checkRateLimit returned.  body.json tells
\* whether request.json() parses; scoring is "ok", "throws" (the completion
\* call fails) or "badjson" (its content does not parse).
POST(decision, body, scoring) ==
    IF decision.threw
    THEN Answer(500, "Failed to analyze post", decision, FALSE)
    ELSE IF ~decision.success
    THEN Answer(429, "Too many requests. Please wait 30 seconds between analyses.",
                decision, FALSE)
    ELSE IF ~body.json
    THEN Answer(500, "Failed to analyze post", decision, FALSE)
    ELSE IF validateBody(body) # ""
    THEN Answer(400, validateBody(body), decision, FALSE)
    ELSE IF scoring # "ok"
    THEN Answer(500, "Failed to analyze post", decision, TRUE)
    ELSE Answer(200, "", decision, TRUE)

(***************************************************************************)
(* Inputs.                                                                 *)
(***************************************************************************)
ServerSecret == <<"K">>
OtherSecret == <<"E">>
Secrets == {<<>>, ServerSecret}

\* crypto.randomUUID() draws from these.
SessionIds == {<<"a">>, <<"b">>}

AddrA == <<"7", ".", "7">>
AddrB == <<"8", ".", "8">>
Junk == <<"z">>

Meta(ip, realIp, forwardedFor) ==
    [ip |-> ip, realIp |-> realIp, forwardedFor |-> forwardedFor]

\* Request metadata: a direct peer address, plain or IPv4-mapped; proxy
\* headers only; nothing at all.
Metas ==
    { Meta(Ipv4MappedPrefix \o AddrA, AddrB, <<>>),
      Meta(<<>>, AddrB, AddrA),
      Meta(<<>>, <<>>, <<" ">> \o AddrA \o <<" ", ",">> \o AddrB),
      Meta(<<>>, <<>>, <<>>) }

Request(meta, header, cookie) ==
    [ip |-> meta.ip, realIp |-> meta.realIp, forwardedFor |-> meta.forwardedFor,
     header |-> header, cookie |-> cookie]

NoRequest == Request(Meta(<<>>, <<>>, <<>>), <<>>, <<>>)

NoOutcome == Outcome(FALSE, "", FALSE, FALSE)

\* No session held.
NoSession ==
    [has |-> FALSE, token |-> <<>>, cookieValue |-> <<>>, sessionId |-> <<>>,
     issuedAt |-> 0, clientId |-> <<>>]

NoIssue == [status |-> 0, token |-> <<>>, cookieValue |-> <<>>, expires |-> 0]

\* The record of a session operation: op is "none", "pending", "issue" or
\* "verify"; by is who sent the request and leak what an adversary knew.
SessionOp(op, by, leak, request, at, out, iss) ==
    [op |-> op, by |-> by, leak |-> leak, request |-> request, at |-> at,
     out |-> out, issue |-> iss]

(***************************************************************************)
(* app/api/session/route.ts and the callers of verifySessionToken.         *)
(***************************************************************************)
\* GET /api/session: issueSessionToken in a try block; the token goes to the
\* body and the cookie to Set-Cookie, or the answer is 500.
SessionGET(meta, sessionId) ==
    LET request == Request(meta, <<>>, <<>>)
        r == issueSessionToken(request, sessionId, now, secret)
    IN  /\ IF r.threw
           THEN /\ res' = SessionOp("issue", "client", "-", request, now, NoOutcome,
                                    [NoIssue EXCEPT !.status = 500])
                /\ held' = held
           ELSE /\ res' = SessionOp("issue", "client", "-", request, now, NoOutcome,
                                    [status |-> 200, token |-> r.token,
                                     cookieValue |-> r.cookieValue,
                                     expires |-> r.expires])
                /\ held' = [has |-> TRUE, token |-> r.token,
                            cookieValue |-> r.cookieValue,
                            sessionId |-> sessionId, issuedAt |-> now,
                            clientId |-> getClientIdentifier(request)]
        /\ UNCHANGED <<now, secret, ratelimit, rateLimitModule, store, resp,
                 handlers, permits, resolved>>

\* A request goes through verifySessionToken.
Verify(by, leak, request) ==
    /\ res' = SessionOp("verify", by, leak, request, now,
                        verifySessionToken(request, now, secret), NoIssue)
    /\ UNCHANGED <<now, secret, held, ratelimit, rateLimitModule, store, resp,
                 handlers, permits, resolved>>

\* The client echoes the token it holds in the header; the browser sends the
\* cookie; the request arrives with any metadata.
ClientVerify ==
    /\ held.has
    /\ \E meta \in Metas :
           Verify("client", "-", Request(meta, held.token, held.cookieValue))

\* What an adversary can send who has learnt one text of session t (leak
\* "cookie": the cookie-form token, leak "header": the header-form token) and
\* holds no server secret: it splits the text into fields, reads the clock, and
\* joins fields again; as a signature it can put a field it has, any text of
\* its own, or a MAC under a key of its own.
AdversaryFields(leak, t) ==
    Split(IF leak = "cookie" THEN t.cookieValue ELSE t.token, TOKEN_SEPARATOR)

AdversaryHeaders(leak, t) ==
    LET fields == AdversaryFields(leak, t)
    IN  {<<>>} \cup {Join(<<f1, f2>>, TOKEN_SEPARATOR) :
                         f1 \in {fields[1], Junk},
                         f2 \in {fields[2], NumberToString(now)}}

AdversaryCookies(leak, t, clientId) ==
    LET fields == AdversaryFields(leak, t)
        third(f1, f2) ==
            {fields[Len(fields)], Junk,
             Hmac(OtherSecret, Join(<<f1, f2, clientId>>, TOKEN_SEPARATOR))}
    IN  {<<>>} \cup
        UNION {UNION {{Join(<<f1, f2, g>>, TOKEN_SEPARATOR) : g \in third(f1, f2)} :
                      f2 \in {fields[2], NumberToString(now)}} :
               f1 \in {fields[1], Junk}}

\* The adversary sends from the ClientIdentity the held session was issued to.
AdversaryVerify ==
    /\ held.has
    /\ \E leak \in {"cookie", "header"} :
       \E h \in AdversaryHeaders(leak, held),
          c \in AdversaryCookies(leak, held, held.clientId) :
       \E meta \in Metas :
           /\ getClientIdentifier(meta) = held.clientId
           /\ Verify("adversary", leak, Request(meta, h, c))

\* The clock.
Tick ==
    /\ now < MaxTime
    /\ now' = now + 1
    /\ UNCHANGED <<secret, held, res, ratelimit, rateLimitModule, store, resp,
                 handlers, permits, resolved>>

(***************************************************************************)
(* checkRateLimit in concurrent handlers: each call resolves its           *)
(* identifier, awaits the one operation of the shared store, and returns   *)
(* after reading the clock again.                                          *)
(***************************************************************************)
NumHandlers == 2
MaxTicks == 4

HandlerIds == 1..NumHandlers

\* The same address as a direct peer in IPv4-mapped form, behind a proxy
\* that forwards for another address, and in x-real-ip.
LimiterMetas ==
    { Meta(Ipv4MappedPrefix \o AddrA, <<>>, AddrB),
      Meta(<<>>, AddrA, <<>>) }

NoLimit ==
    [success |-> FALSE, limit |-> 0, reset |-> 0, remaining |-> 0,
     store |-> EmptyStore]

NoDecision == Decision(FALSE, 0, 0, 0, 0, FALSE, 0, EmptyStore)

\* A handler: pc is "idle", "awaiting" (the store call is in flight),
\* "settled" (the store has answered or failed) or "returned" (checkRateLimit
\* has returned d, or thrown, at the present time).
NoCall ==
    [pc |-> "idle", request |-> NoRequest, identity |-> <<>>, opAt |-> 0,
     lastBefore |-> 0 - 1, failed |-> FALSE, r |-> NoLimit, d |-> NoDecision]

NoHandlers == [h \in HandlerIds |-> NoCall]

NoPermits == [k \in {} |-> 0]

NoResolved == [done |-> FALSE, request |-> NoRequest, identifier |-> <<>>]

\* checkRateLimit is entered (lib/rateLimit.ts): without a limiter it returns
\* at once, otherwise the store call is sent.
Call(h, meta) ==
    /\ handlers[h].pc = "idle"
    /\ LET request == Request(meta, <<>>, <<>>)
           call == [NoCall EXCEPT !.request = request,
                                  !.identity = getClientIdentifier(request)]
       IN  handlers' =
               [handlers EXCEPT ![h] =
                   IF ratelimit = "null"
                   THEN [call EXCEPT
                            !.pc = "returned",
                            !.d = [rateLimitImport(rateLimitModule, request, now,
                                                   ratelimit, EmptyStore, FALSE)
                                   EXCEPT !.store = EmptyStore]]
                   ELSE [call EXCEPT !.pc = "awaiting"]]
    /\ UNCHANGED <<now, secret, held, res, ratelimit, rateLimitModule, store, resp,
                   permits, resolved>>

\* The identifier the awaiting call of a handler sent to the store.
SentIdentifier(request) ==
    IF rateLimitModule = "legacy"
    THEN checkRateLimitLegacyIdentifier(request)
    ELSE checkRateLimitIdentifier(request)

\* The store serves the call of handler h in one atomic operation, or the call
\* fails (the store is unreachable).
StoreLimit(h, storeFails) ==
    /\ handlers[h].pc = "awaiting"
    /\ LET c == handlers[h]
           r == limit(store, SentIdentifier(c.request), now)
           allowed == ~storeFails /\ r.success
       IN  /\ store' = IF storeFails THEN store ELSE r.store
           /\ handlers' =
                  [handlers EXCEPT ![h] =
                      [c EXCEPT !.pc = "settled", !.opAt = now,
                                !.failed = storeFails,
                                !.lastBefore =
                                    IF c.identity \in DOMAIN permits
                                    THEN permits[c.identity] ELSE 0 - 1,
                                !.r = IF storeFails THEN NoLimit
                                      ELSE [r EXCEPT !.store = EmptyStore]]]
           /\ permits' =
                  IF allowed
                  THEN [k \in DOMAIN permits \cup {c.identity} |->
                           IF k = c.identity THEN now ELSE permits[k]]
                  ELSE permits
    /\ UNCHANGED <<now, secret, held, res, ratelimit, rateLimitModule, resp,
                   resolved>>

\* The handler resumes after the await and checkRateLimit returns, or lets
\* the error of the store propagate.
Return(h) ==
    /\ handlers[h].pc = "settled"
    /\ LET c == handlers[h]
       IN  handlers' =
               [handlers EXCEPT ![h] =
                   [c EXCEPT
                       !.pc = "returned",
                       !.d = [(IF rateLimitModule = "legacy"
                               THEN checkRateLimitLegacyReturn(c.r, c.failed, now,
                                                               EmptyStore)
                               ELSE checkRateLimitReturn(c.r, c.failed, now,
                                                         EmptyStore))
                              EXCEPT !.store = EmptyStore]]]
    /\ UNCHANGED <<now, secret, held, res, ratelimit, rateLimitModule, store, resp,
                   permits, resolved>>

\* The handler goes on with what checkRateLimit returned and is free for the
\* next request.
Done(h) ==
    /\ handlers[h].pc = "returned"
    /\ handlers' = [handlers EXCEPT ![h] = NoCall]
    /\ UNCHANGED <<now, secret, held, res, ratelimit, rateLimitModule, store, resp,
                   permits, resolved>>

\* The clock, in steps of TickMs; what a call returned is kept on record for
\* the instant of its return only.
TickLimiter ==
    /\ now < MaxTicks * TickMs
    /\ \A h \in HandlerIds : handlers[h].pc # "returned"
    /\ now' = now + TickMs
    /\ UNCHANGED <<secret, held, res, ratelimit, rateLimitModule, store, resp,
                   handlers, permits, resolved>>

(***************************************************************************)
(* The analyze endpoint: requests arrive, the clock advances.              *)
(***************************************************************************)
Body(post, displayName, image, dataUrl, name) ==
    [json |-> TRUE, post |-> post, displayName |-> displayName,
     image |-> image, dataUrl |-> dataUrl, name |-> name]

AnObject == Value("object", 0, 0)

GoodBody == Body(StringOf(1), StringOf(1), Undefined, Undefined, Undefined)

Bodies ==
    {GoodBody, [GoodBody EXCEPT !.json = FALSE]}
    \cup {[GoodBody EXCEPT !.post = v] :
              v \in {Undefined, ANumber, StringOf(0), StringOf(POST_MAX_LENGTH),
                     StringOf(POST_MAX_LENGTH + 1)}}
    \cup {[GoodBody EXCEPT !.displayName = v] :
              v \in {Undefined, ANumber, StringOf(0), Value("string", 1, 0),
                     StringOf(DISPLAY_NAME_MAX_LENGTH),
                     StringOf(DISPLAY_NAME_MAX_LENGTH + 1)}}
    \cup {[GoodBody EXCEPT !.image = StringOf(1)]}
    \cup {Body(StringOf(1), StringOf(1), AnObject, d, StringOf(1)) :
              d \in {Undefined, ANumber, StringOf(IMAGE_DATA_URL_MAX_LENGTH),
                     StringOf(IMAGE_DATA_URL_MAX_LENGTH + 1)}}
    \cup {Body(StringOf(1), StringOf(1), AnObject, Undefined, ANumber)}

AnalyzeMetas ==
    { Meta(Ipv4MappedPrefix \o AddrA, AddrB, <<>>),
      Meta(<<>>, AddrB, AddrA) }

\* What a request to the analyze endpoint carries as session: nothing, or the
\* token and cookie of a session issued to it just now.
Sessions(meta) ==
    LET r == issueSessionToken(Request(meta, <<>>, <<>>), <<"a">>, now, secret)
    IN  {<<<<>>, <<>>>>, <<r.token, r.cookieValue>>}

NoAnswer ==
    [status |-> 0, error |-> "", retryAfter |-> 0,
     headers |-> [limit |-> 0, remaining |-> 0, reset |-> 0, retryAfter |-> 0],
     scored |-> FALSE]

NoResp ==
    [handled |-> FALSE, at |-> 0, identity |-> <<>>, configured |-> FALSE,
     storeFailed |-> FALSE, verify |-> NoOutcome, body |-> GoodBody,
     decision |-> Decision(FALSE, 0, 0, 0, 0, FALSE, 0, EmptyStore),
     answer |-> NoAnswer]

\* One request is handled by POST /api/analyze: checkRateLimit with its one
\* store operation, then the rest of the handler.  verify records what
\* verifySessionToken returns for this request, identity the ClientIdentity it
\* resolves to.
AnalyzePOST ==
    \E meta \in AnalyzeMetas, storeFails \in BOOLEAN :
        /\ storeFails => ratelimit = "configured"
        /\ \E session \in Sessions(meta) :
            \E request \in {Request(meta, session[1], session[2])} :
            \E d \in {rateLimitImport(rateLimitModule, request, now, ratelimit,
                                      store, storeFails)},
               v \in {verifySessionToken(request, now, secret)} :
            \E body \in Bodies, scoring \in {"ok", "throws", "badjson"} :
                /\ scoring # "ok"
                   => d.success /\ ~d.threw /\ body.json /\ validateBody(body) = ""
                /\ store' = d.store
                /\ resp' = [handled |-> TRUE, at |-> now,
                            identity |-> getClientIdentifier(request),
                            configured |-> ratelimit = "configured",
                            storeFailed |-> storeFails,
                            verify |-> v,
                            body |-> body,
                            decision |-> [d EXCEPT !.store = EmptyStore],
                            answer |-> POST(d, body, scoring)]
                /\ UNCHANGED <<now, secret, held, res, ratelimit, rateLimitModule,
                               handlers, permits, resolved>>

\* The clock, in steps of TickMs.
TickAnalyze ==
    /\ now < MaxTime * TickMs
    /\ now' = now + TickMs
    /\ UNCHANGED <<secret, held, res, ratelimit, rateLimitModule, store, resp,
                 handlers, permits, resolved>>

InitAnalyze ==
    /\ now = 0
    /\ secret = ServerSecret
    /\ held = NoSession
    /\ res = SessionOp("none", "-", "-", NoRequest, 0, NoOutcome, NoIssue)
    /\ \E restUrl \in BOOLEAN, restToken \in BOOLEAN :
           ratelimit = ratelimitOf(restUrl, restToken)
    /\ rateLimitModule \in {"current", "legacy"}
    /\ store = EmptyStore
    /\ resp = NoResp
    /\ handlers = NoHandlers
    /\ permits = NoPermits
    /\ resolved = NoResolved

NextAnalyze == AnalyzePOST \/ TickAnalyze

SpecAnalyze == InitAnalyze /\ [][NextAnalyze]_vars

\* The same with the limiter configured and the checkRateLimit of
\* lib/rateLimit.ts that resolves the identifier with getClientIdentifier.
InitAnalyzeCurrent ==
    /\ InitAnalyze
    /\ ratelimit = "configured"
    /\ rateLimitModule = "current"

SpecAnalyzeCurrent == InitAnalyzeCurrent /\ [][NextAnalyze]_vars

\* That checkRateLimit with the limiter configured or not.
InitAnalyzeFailClosed ==
    /\ InitAnalyze
    /\ rateLimitModule = "current"

SpecAnalyzeFailClosed == InitAnalyzeFailClosed /\ [][NextAnalyze]_vars

\* Concurrent checkRateLimit calls against the shared store.
InitLimiter ==
    /\ now = 0
    /\ secret = ServerSecret
    /\ held = NoSession
    /\ res = SessionOp("none", "-", "-", NoRequest, 0, NoOutcome, NoIssue)
    /\ \E restUrl \in BOOLEAN, restToken \in BOOLEAN :
           ratelimit = ratelimitOf(restUrl, restToken)
    /\ rateLimitModule \in {"current", "legacy"}
    /\ store = EmptyStore
    /\ resp = NoResp
    /\ handlers = NoHandlers
    /\ permits = NoPermits
    /\ resolved = NoResolved

NextLimiter ==
    \/ \E h \in HandlerIds, meta \in LimiterMetas : Call(h, meta)
    \/ \E h \in HandlerIds, storeFails \in BOOLEAN : StoreLimit(h, storeFails)
    \/ \E h \in HandlerIds : Return(h)
    \/ \E h \in HandlerIds : Done(h)
    \/ TickLimiter

SpecLimiter == InitLimiter /\ [][NextLimiter]_vars

\* The same with the checkRateLimit of lib/rateLimit.ts that resolves the
\* identifier with getClientIdentifier.
InitLimiterCurrent ==
    /\ InitLimiter
    /\ rateLimitModule = "current"

SpecLimiterCurrent == InitLimiterCurrent /\ [][NextLimiter]_vars

(***************************************************************************)
(* The session endpoints: issuance, the issued client, an adversary.       *)
(***************************************************************************)
InitSession ==
    /\ now = 0
    /\ secret \in Secrets
    /\ held = NoSession
    /\ res = SessionOp("none", "-", "-", NoRequest, 0, NoOutcome, NoIssue)
    /\ ratelimit = "null"
    /\ rateLimitModule = "current"
    /\ store = EmptyStore
    /\ resp = NoResp
    /\ handlers = NoHandlers
    /\ permits = NoPermits
    /\ resolved = NoResolved

NextSession ==
    \/ \E meta \in Metas, sessionId \in SessionIds : SessionGET(meta, sessionId)
    \/ ClientVerify
    \/ AdversaryVerify
    \/ Tick

SpecSession == InitSession /\ [][NextSession]_vars

\* Issuance alone: GET /api/session from any request metadata at any time.
NextIssue ==
    \/ \E meta \in Metas, sessionId \in SessionIds : SessionGET(meta, sessionId)
    \/ Tick

SpecIssue == InitSession /\ [][NextIssue]_vars

\* A client alone, presenting what it was issued: it asks for sessions and
\* presents the one it holds again and again while the clock runs.
NextClient ==
    \/ \E meta \in Metas, sessionId \in SessionIds : SessionGET(meta, sessionId)
    \/ ClientVerify
    \/ Tick

SpecClient == InitSession /\ [][NextClient]_vars

\* Texts that Number.parseInt(., 10) reads as the integer n or as its
\* successor: the decimal form, the same after a zero, after a space, before a
\* letter, and the decimal form of n + 1.
IssuedAtVariants(n) ==
    {NumberToString(n), <<"0">> \o NumberToString(n), <<" ">> \o NumberToString(n),
     NumberToString(n) \o <<"x">>, NumberToString(n + 1)}

\* The client presents the session it holds from the ClientIdentity of
\* issuance with the issuedAt field of the header and of the cookie rewritten,
\* sessionId and signature as issued.
VariantVerify ==
    /\ held.has
    /\ LET signature == Split(held.cookieValue, TOKEN_SEPARATOR)[3]
       IN  \E h \in IssuedAtVariants(held.issuedAt),
              c \in IssuedAtVariants(held.issuedAt) :
           \E meta \in Metas :
               /\ getClientIdentifier(meta) = held.clientId
               /\ Verify("client", "-",
                      Request(meta,
                              Join(<<held.sessionId, h>>, TOKEN_SEPARATOR),
                              Join(<<held.sessionId, c, signature>>,
                                   TOKEN_SEPARATOR)))

\* The same client presenting the session it holds as issued or rewritten.
NextReplay ==
    \/ \E meta \in Metas, sessionId \in SessionIds : SessionGET(meta, sessionId)
    \/ ClientVerify
    \/ VariantVerify
    \/ Tick

SpecReplay == InitSession /\ [][NextReplay]_vars

(***************************************************************************)
(* getClientIdentifier as a function of the request metadata.              *)
(***************************************************************************)
Addresses == {AddrA, AddrB}

\* Texts for request.ip and x-real-ip: nothing, an address, its IPv4-mapped
\* form, the bare prefix, an address after a space.
PeerTexts ==
    {<<>>, Ipv4MappedPrefix, <<" ">> \o AddrA}
    \cup Addresses \cup {Ipv4MappedPrefix \o a : a \in Addresses}

\* What stands before and after the first entry of x-forwarded-for.
ForwardedLeads == {<<>>, <<" ">>}
ForwardedRests == {<<>>, <<" ", ",">> \o AddrB, <<",">>}

ForwardedText(lead, entry, rest) == lead \o entry \o rest

ForwardedTexts ==
    {<<>>}
    \cup {ForwardedText(lead, entry, rest) :
              lead \in ForwardedLeads,
              entry \in {<<>>, AddrA, Ipv4MappedPrefix \o AddrA},
              rest \in ForwardedRests}

InitResolve ==
    /\ now = 0
    /\ secret = ServerSecret
    /\ held = NoSession
    /\ res = SessionOp("none", "-", "-", NoRequest, 0, NoOutcome, NoIssue)
    /\ ratelimit = "null"
    /\ rateLimitModule = "current"
    /\ store = EmptyStore
    /\ resp = NoResp
    /\ handlers = NoHandlers
    /\ permits = NoPermits
    /\ \E ip \in PeerTexts, realIp \in PeerTexts, forwardedFor \in ForwardedTexts :
           resolved = [NoResolved EXCEPT
                          !.request = Request(Meta(ip, realIp, forwardedFor),
                                              <<>>, <<>>)]

\* getClientIdentifier(request) is called and returns.
Resolve ==
    /\ ~resolved.done
    /\ resolved' = [resolved EXCEPT
                       !.done = TRUE,
                       !.identifier = getClientIdentifier(resolved.request)]
    /\ UNCHANGED <<now, secret, held, res, ratelimit, rateLimitModule, store, resp,
                   handlers, permits>>

NextResolve == Resolve

SpecResolve == InitResolve /\ [][NextResolve]_vars

(***************************************************************************)
(* verifySessionToken as a function of the request, the clock and the      *)
(* secret: every request a sender can put together arrives at any time.    *)
(***************************************************************************)
\* Texts for the issuedAt field: the decimal form of a time, the same with a
\* leading zero or with a trailing letter, no digit, nothing.
IssuedAtTexts ==
    {<<"0">>, <<"1">>, <<"0", "1">>, <<"1", "x">>, <<"x">>, <<>>}

IdentityTexts == {AddrA, AddrB}

\* Signature fields for a cookie whose first fields are sid and iat: none, a
\* text that is no MAC, the MAC of the decoded fields for either identity under
\* the server secret or under another key, and the MAC of the raw fields.
SignatureTexts(sid, iat) ==
    {<<>>, Junk}
    \cup {signValue(ServerSecret, Join(<<sid, iat, AddrA>>, TOKEN_SEPARATOR))}
    \cup (IF ParseInt(iat).nan THEN {}
          ELSE {signValue(k, Join(<<sid, NumberToString(ParseInt(iat).n), id>>,
                                  TOKEN_SEPARATOR)) :
                    k \in {ServerSecret, OtherSecret}, id \in IdentityTexts})

HeaderTexts ==
    {<<>>, <<"a">>, <<"a", ".", "0", ".", "z">>}
    \cup {Join(<<sid, iat>>, TOKEN_SEPARATOR) :
              sid \in SessionIds \cup {<<>>}, iat \in IssuedAtTexts}

CookieTexts ==
    {<<>>, <<"a", ".", "0">>, <<"a", ".", "0", ".", "z", ".", "z">>}
    \cup UNION {UNION {{Join(<<sid, iat, sig>>, TOKEN_SEPARATOR) :
                           sig \in SignatureTexts(sid, iat)} :
                       iat \in IssuedAtTexts} :
                sid \in SessionIds \cup {<<>>}}

VerifyMetas ==
    { Meta(AddrA, <<>>, <<>>), Meta(<<>>, AddrB, AddrA) }

InitVerify ==
    /\ now \in 0..MaxTime
    /\ secret \in Secrets
    /\ held = NoSession
    /\ \E meta \in VerifyMetas, h \in HeaderTexts, c \in CookieTexts :
           res = SessionOp("pending", "any", "-", Request(meta, h, c), now,
                           NoOutcome, NoIssue)
    /\ ratelimit = "null"
    /\ rateLimitModule = "current"
    /\ store = EmptyStore
    /\ resp = NoResp
    /\ handlers = NoHandlers
    /\ permits = NoPermits
    /\ resolved = NoResolved

\* The pending request is verified.
VerifyPending ==
    /\ res.op = "pending"
    /\ Verify("any", "-", res.request)

NextVerify == VerifyPending

SpecVerify == InitVerify /\ [][NextVerify]_vars

(***************************************************************************)
(* Properties of the session token.                                        *)
(***************************************************************************)
\* The last operation verified the held session's own token and cookie.
PresentsHeld ==
    /\ res.op = "verify"
    /\ held.has
    /\ res.request.header = held.token
    /\ res.request.cookie = held.cookieValue

\* The fields of the header and of the cookie of the verified request.
HeaderFields == Split(res.request.header, TOKEN_SEPARATOR)
CookieFields == Split(res.request.cookie, TOKEN_SEPARATOR)

\* Header and cookie both decode: 2 and 3 fields, the sessionId (and the
\* signature) not empty, the issuedAt field with a leading integer.
Decodable ==
    /\ res.op = "verify"
    /\ Len(HeaderFields) = 2
    /\ HeaderFields[1] # <<>>
    /\ ~ParseInt(HeaderFields[2]).nan
    /\ Len(CookieFields) = 3
    /\ CookieFields[1] # <<>>
    /\ ~ParseInt(CookieFields[2]).nan
    /\ CookieFields[3] # <<>>

\* Header and cookie agree on sessionId and issuedAt.
Agree ==
    /\ HeaderFields[1] = CookieFields[1]
    /\ ParseInt(HeaderFields[2]).n = ParseInt(CookieFields[2]).n

\* C1: a token and cookie returned by issueSessionToken, presented at once as
\* header and cookie by a request that resolves to the ClientIdentity of
\* issuance, are accepted by verifySessionToken.
C1_RoundTrip ==
    (/\ PresentsHeld
     /\ res.by = "client"
     /\ getClientIdentifier(res.request) = held.clientId
     /\ res.at = held.issuedAt)
    => res.out.valid

\* C1 happens: a session issued to a request with an IPv4-mapped peer address
\* is verified at once from the same identity.
C1_Witness ==
    /\ PresentsHeld
    /\ res.by = "client"
    /\ getClientIdentifier(res.request) = held.clientId
    /\ res.request.ip # <<>>
    /\ res.request.ip # held.clientId
    /\ res.at = held.issuedAt
    /\ res.out.valid

\* C2: verifySessionToken accepts only if header and cookie agree on sessionId
\* and issuedAt, now - issuedAt <= SESSION_MAX_AGE_MS, and the cookie's
\* signature is the MAC, under the server secret, of sessionId, issuedAt and the
\* ClientIdentity of the current request.
C2_Soundness ==
    (res.op = "verify" /\ res.out.valid)
    => /\ Decodable
       /\ Agree
       /\ res.at - ParseInt(CookieFields[2]).n <= SESSION_MAX_AGE_MS
       /\ secret # <<>>
       /\ CookieFields[3] =
              Hmac(secret,
                   Join(<<CookieFields[1],
                          NumberToString(ParseInt(CookieFields[2]).n),
                          getClientIdentifier(res.request)>>, TOKEN_SEPARATOR))

\* C2 happens: a request is accepted whose header is not the text of the
\* cookie's first two fields.
C2_Witness ==
    /\ res.op = "verify"
    /\ res.out.valid
    /\ res.request.header # Join(<<CookieFields[1], CookieFields[2]>>, TOKEN_SEPARATOR)

\* C3: a token issued to one ClientIdentity and presented, unexpired, header
\* and cookie unchanged, by a request that resolves to another ClientIdentity is
\* rejected with 'Session token verification failed'.
C3_IdentityBinding ==
    (/\ PresentsHeld
     /\ res.at - held.issuedAt <= SESSION_MAX_AGE_MS
     /\ getClientIdentifier(res.request) # held.clientId)
    => /\ ~res.out.valid
       /\ ~res.out.threw
       /\ res.out.error = "Session token verification failed"

C3_Witness ==
    /\ PresentsHeld
    /\ res.by = "client"
    /\ res.at - held.issuedAt <= SESSION_MAX_AGE_MS
    /\ held.clientId = AddrA
    /\ getClientIdentifier(res.request) = AddrB
    /\ res.out.error = "Session token verification failed"

\* C4: a token verified when more than SESSION_MAX_AGE_MS has passed since its
\* issuedAt is rejected with 'Session token expired', whatever its signature
\* and before any signature is computed; no request that old is accepted.
C4_Expiry ==
    /\ (Decodable /\ Agree
        /\ res.at - ParseInt(CookieFields[2]).n > SESSION_MAX_AGE_MS)
       => /\ ~res.out.valid
          /\ ~res.out.threw
          /\ ~res.out.signed
          /\ res.out.error = "Session token expired"
    /\ (Decodable /\ res.at - ParseInt(CookieFields[2]).n > SESSION_MAX_AGE_MS)
       => ~res.out.valid

\* C4 happens: an expired token with the right signature for the sender.
C4_Witness ==
    /\ Decodable /\ Agree
    /\ res.at - ParseInt(CookieFields[2]).n > SESSION_MAX_AGE_MS
    /\ CookieFields[3] =
           Hmac(ServerSecret,
                Join(<<CookieFields[1], NumberToString(ParseInt(CookieFields[2]).n),
                       getClientIdentifier(res.request)>>, TOKEN_SEPARATOR))
    /\ secret = ServerSecret
    /\ res.out.error = "Session token expired"

\* C5: a decodable header and cookie that differ in sessionId or issuedAt are
\* rejected with 'Session token mismatch' and no signature is computed, whatever
\* the signature, the age, the ClientIdentity, and with or without a secret.
C5_MismatchFirst ==
    (Decodable /\ ~Agree)
    => /\ ~res.out.valid
       /\ ~res.out.threw
       /\ ~res.out.signed
       /\ res.out.error = "Session token mismatch"

\* C5 happens: issuedAt differs, the token is old and no secret is configured.
C5_Witness ==
    /\ Decodable
    /\ HeaderFields[1] = CookieFields[1]
    /\ ParseInt(HeaderFields[2]).n # ParseInt(CookieFields[2]).n
    /\ res.at - ParseInt(HeaderFields[2]).n > SESSION_MAX_AGE_MS
    /\ secret = <<>>
    /\ res.out.error = "Session token mismatch"

\* The last operation verified a request of an adversary who knew only leak.
AdversaryWith(leak) ==
    res.op = "verify" /\ res.by = "adversary" /\ res.leak = leak

\* C6 as claimed: knowing only the cookie-form token, an adversary sending from
\* the ClientIdentity of issuance is never accepted.
C6_CookieAloneInsufficient == AdversaryWith("cookie") => ~res.out.valid

\* C6 as amended: knowing only the cookie-form token, the adversary is rejected
\* with 'Missing session token' when it sends no header, and is accepted only
\* with the stolen signature, unexpired, and a header that decodes to the
\* sessionId and issuedAt of the stolen cookie.
C6_CookieNeedsDerivedHeader ==
    AdversaryWith("cookie")
    => /\ res.request.header = <<>>
          => ~res.out.valid /\ res.out.error = "Missing session token"
       /\ res.out.valid
          => /\ Decodable
             /\ CookieFields[3] = Split(held.cookieValue, TOKEN_SEPARATOR)[3]
             /\ HeaderFields[1] = held.sessionId
             /\ ParseInt(HeaderFields[2]).n = held.issuedAt
             /\ res.at - held.issuedAt <= SESSION_MAX_AGE_MS

\* The amended C6 happens: the adversary is accepted with a header made of the
\* first two fields of the stolen cookie.
C6_Witness ==
    /\ AdversaryWith("cookie")
    /\ res.request.cookie = held.cookieValue
    /\ res.request.header =
           Join(<<CookieFields[1], CookieFields[2]>>, TOKEN_SEPARATOR)
    /\ res.out.valid

\* C7: knowing only the header-form token, an adversary sending from the
\* ClientIdentity of issuance is never accepted.
C7_HeaderAloneInsufficient == AdversaryWith("header") => ~res.out.valid

\* C7 happens: the adversary sends the stolen header, unexpired, with a cookie
\* signed under a key of its own, and fails on the signature.
C7_Witness ==
    /\ AdversaryWith("header")
    /\ res.request.header = held.token
    /\ Decodable /\ Agree
    /\ CookieFields[3] =
           Hmac(OtherSecret,
                Join(<<CookieFields[1], CookieFields[2], held.clientId>>,
                     TOKEN_SEPARATOR))
    /\ res.out.error = "Session token verification failed"

(***************************************************************************)
(* Properties of the analyze endpoint.                                     *)
(***************************************************************************)
\* C8: the scoring call is made only for a request that verifySessionToken
\* accepts; a request whose session token fails verification is rejected
\* before the scoring call.
C8_ScoringGatedByVerification ==
    (resp.handled /\ resp.answer.scored) => resp.verify.valid

\* C9: the scoring call is made only after checkRateLimit returned success for
\* the same request; when it returned no success, or the store is not
\* configured, or the store call raised an error, the request is rejected and
\* no scoring call is made.
C9_NoFailureBecomesAllow ==
    resp.handled
    => /\ resp.answer.scored
          => resp.decision.success /\ ~resp.decision.threw
       /\ (~resp.decision.success \/ ~resp.configured \/ resp.storeFailed)
          => ~resp.answer.scored /\ resp.answer.status \in {429, 500}

\* C10: when the store is not configured, every checkRateLimit call returns
\* success = false with retryAfter = 30.
C10_FailClosedUnconfigured ==
    (resp.handled /\ ~resp.configured)
    => /\ ~resp.decision.success
       /\ resp.decision.retryAfter = 30

\* C11: when the store is configured and its call raises an error,
\* checkRateLimit does not let the error propagate and returns success = false
\* with retryAfter = 60.
C11_FailClosedStoreError ==
    (resp.handled /\ resp.configured /\ resp.storeFailed)
    => /\ ~resp.decision.threw
       /\ ~resp.decision.success
       /\ resp.decision.retryAfter = 60

(***************************************************************************)
(* Properties of checkRateLimit against the shared store.                  *)
(***************************************************************************)
\* The store has answered the call of handler h.
Answered(h) ==
    /\ ratelimit = "configured"
    /\ handlers[h].pc \in {"settled", "returned"}
    /\ ~handlers[h].failed

\* C12: with the quota of 1 per 30 seconds and a reachable store, a call is
\* allowed exactly when no call of the same ClientIdentity was allowed less
\* than 30 seconds before it: allowed, then denied within the window, then
\* allowed again once the window has elapsed since the allowed call.
C12_SlidingWindowSequence ==
    \A h \in HandlerIds :
        /\ Answered(h)
           => (handlers[h].r.success
               <=> \/ handlers[h].lastBefore < 0
                   \/ handlers[h].opAt - handlers[h].lastBefore
                          >= RATE_LIMIT_WINDOW_MS)
        /\ (Answered(h) /\ handlers[h].pc = "returned")
           => handlers[h].d.success = handlers[h].r.success

\* One call was denied inside the window of an allowed call, and a later call,
\* made once the window had elapsed, is allowed again.
C12_Witness ==
    \E h1, h2 \in HandlerIds :
        /\ Answered(h1) /\ ~handlers[h1].r.success
        /\ handlers[h1].lastBefore >= 0
        /\ handlers[h1].opAt - handlers[h1].lastBefore < RATE_LIMIT_WINDOW_MS
        /\ Answered(h2) /\ handlers[h2].pc = "returned"
        /\ handlers[h2].d.success
        /\ handlers[h2].identity = handlers[h1].identity
        /\ handlers[h2].lastBefore = handlers[h1].lastBefore
        /\ handlers[h2].opAt - handlers[h2].lastBefore >= RATE_LIMIT_WINDOW_MS

C18_DecisionOnStoreSuccess ==
    \A h \in HandlerIds :
        (Answered(h) /\ handlers[h].pc = "returned")
        => /\ ~handlers[h].d.threw
           /\ handlers[h].d.success = handlers[h].r.success
           /\ handlers[h].d.limit = handlers[h].r.limit
           /\ handlers[h].d.remaining = handlers[h].r.remaining
           /\ handlers[h].d.reset = handlers[h].r.reset
           /\ handlers[h].d.retryAfter
                  = Max(0, (handlers[h].r.reset - now) \div 1000)
           /\ handlers[h].d.retryAfter >= 0

(***************************************************************************)
(* Properties of issuance.                                                 *)
(***************************************************************************)
\* The last operation was an issuance that answered with a token.
Issued == res.op = "issue" /\ res.issue.status = 200

\* C14: when the signing secret is absent (unset or empty), issueSessionToken
\* fails and returns no token, and GET /api/session answers with an error
\* status and sets no cookie; every token that is issued carries a signature
\* made with a secret that is present.
C14_MissingSecretFatal ==
    /\ (res.op = "issue" /\ secret = <<>>)
       => /\ res.issue.status = 500
          /\ res.issue.token = <<>>
          /\ res.issue.cookieValue = <<>>
          /\ ~held.has
    /\ Issued
       => /\ secret # <<>>
          /\ Len(Split(res.issue.cookieValue, TOKEN_SEPARATOR)) = 3
          /\ Split(res.issue.cookieValue, TOKEN_SEPARATOR)[3]
                 = Hmac(secret,
                        Join(<<res.issue.token, getClientIdentifier(res.request)>>,
                             TOKEN_SEPARATOR))

\* Issuance was asked for without a secret and answered 500.
C14_Witness ==
    /\ res.op = "issue"
    /\ secret = <<>>
    /\ res.issue.status = 500
    /\ res.at > 0

\* C20: issueSessionToken returns the header-form token sessionId.issuedAt, the
\* cookie-form token made of that token, the separator and the signature over
\* sessionId.issuedAt.ClientIdentity of the issuing request, and expires =
\* issuedAt + SESSION_MAX_AGE_MS; the header-form token is the first two fields
\* of the cookie-form token.
C20_IssuedTokenShape ==
    Issued
    => LET cookieFields == Split(res.issue.cookieValue, TOKEN_SEPARATOR)
           identity == getClientIdentifier(res.request)
       IN  /\ res.issue.token
                  = held.sessionId \o <<TOKEN_SEPARATOR>> \o NumberToString(res.at)
           /\ res.issue.cookieValue
                  = res.issue.token \o <<TOKEN_SEPARATOR>>
                    \o signValue(secret,
                                 held.sessionId \o <<TOKEN_SEPARATOR>>
                                 \o NumberToString(res.at) \o <<TOKEN_SEPARATOR>>
                                 \o identity)
           /\ res.issue.expires = res.at + SESSION_MAX_AGE_MS
           /\ Len(cookieFields) = 3
           /\ Split(res.issue.token, TOKEN_SEPARATOR)
                  = <<cookieFields[1], cookieFields[2]>>

\* A token was issued, at a time of more than one digit's worth of clock, to a
\* request whose direct peer address is in IPv4-mapped form.
C20_Witness ==
    /\ Issued
    /\ res.at > 0
    /\ StartsWith(res.request.ip, Ipv4MappedPrefix)
    /\ getClientIdentifier(res.request) = AddrA

(***************************************************************************)
(* Properties of the client identity resolver.                             *)
(***************************************************************************)
\* The text of s before its first comma.
RECURSIVE BeforeComma(_)
BeforeComma(s) ==
    IF s = <<>> \/ Head(s) = "," THEN <<>>
    ELSE <<Head(s)>> \o BeforeComma(Tail(s))

\* s without the spaces at its two ends.
Unspaced(s) ==
    LET inked == {i \in 1..Len(s) : s[i] # " "}
    IN  IF inked = {} THEN <<>>
        ELSE SubSeq(s, CHOOSE i \in inked : \A j \in inked : i <= j,
                    CHOOSE i \in inked : \A j \in inked : i >= j)

\* C15: getClientIdentifier returns the direct peer address when it is present,
\* whatever the headers say; otherwise the x-real-ip value when present;
\* otherwise the trimmed first comma-separated entry of x-forwarded-for when
\* that entry is not empty; otherwise "unknown" (each with the IPv4-mapped
\* prefix removed).  It always returns.
C15_ResolverPrecedence ==
    resolved.done
    => LET q == resolved.request
           first == Unspaced(BeforeComma(q.forwardedFor))
       IN  resolved.identifier =
               IF q.ip # <<>> THEN stripIpv6Prefix(q.ip)
               ELSE IF q.realIp # <<>> THEN stripIpv6Prefix(q.realIp)
               ELSE IF first # <<>> THEN stripIpv6Prefix(first)
               ELSE FALLBACK_IDENTIFIER

\* With no peer address and no x-real-ip, the identity came from a first
\* x-forwarded-for entry that had spaces around it and entries after it.
C15_Witness ==
    /\ resolved.done
    /\ resolved.request.ip = <<>>
    /\ resolved.request.realIp = <<>>
    /\ resolved.request.forwardedFor = <<" ">> \o AddrA \o <<" ", ",">> \o AddrB
    /\ resolved.identifier = AddrA

\* C16: for every address a and every source field, a request that carries
\* the IPv4-mapped form of a in that field resolves to the same ClientIdentity
\* as the same request carrying a itself.
C16_DualStackCollapse ==
    resolved.done
    => \A a \in Addresses :
          LET q == resolved.request
              mapped == Ipv4MappedPrefix \o a
          IN  /\ q.ip = mapped
                 => resolved.identifier = getClientIdentifier([q EXCEPT !.ip = a])
              /\ q.realIp = mapped
                 => resolved.identifier
                        = getClientIdentifier([q EXCEPT !.realIp = a])
              /\ \A lead \in ForwardedLeads, rest \in ForwardedRests :
                    q.forwardedFor = ForwardedText(lead, mapped, rest)
                    => resolved.identifier
                           = getClientIdentifier(
                                 [q EXCEPT !.forwardedFor =
                                               ForwardedText(lead, a, rest)])

\* The identity came from an x-real-ip header in IPv4-mapped form.
C16_Witness ==
    /\ resolved.done
    /\ resolved.request.ip = <<>>
    /\ resolved.request.realIp = Ipv4MappedPrefix \o AddrA
    /\ resolved.identifier = AddrA

(***************************************************************************)
(* Properties of the answers of the analyze endpoint.                      *)
(***************************************************************************)
\* The admission gate denied the last request.
Denied ==
    /\ resp.handled
    /\ ~resp.decision.success \/ ~resp.configured \/ resp.storeFailed

\* C19: every request the admission gate denies is answered 429 with the
\* seconds to retry (body retryAfter and Retry-After) and the limiter's limit,
\* remaining and reset (X-RateLimit-*): 30 s and zeros when the store is not
\* configured, 60 s and zeros when the store call failed, and the store's own
\* values when the store denied.
C19_RejectionShape ==
    Denied
    => /\ resp.answer.status = 429
       /\ ~resp.answer.scored
       /\ resp.answer.retryAfter \in Nat
       /\ resp.answer.headers.retryAfter = resp.answer.retryAfter
       /\ IF ~resp.configured \/ resp.storeFailed
          THEN /\ resp.answer.retryAfter = (IF resp.storeFailed THEN 60 ELSE 30)
               /\ resp.answer.headers.limit = 0
               /\ resp.answer.headers.remaining = 0
               /\ resp.answer.headers.reset = resp.at
          ELSE /\ resp.answer.headers.limit = RATE_LIMIT_TOKENS
               /\ resp.answer.headers.remaining = 0
               /\ resp.answer.headers.reset > resp.at
               /\ resp.answer.headers.reset <= resp.at + RATE_LIMIT_WINDOW_MS
               /\ resp.answer.retryAfter
                      = (resp.answer.headers.reset - resp.at) \div 1000

\* A request was denied because the store call failed, after the clock had
\* moved, and answered 429 with the 60 s fallback.
C19_Witness ==
    /\ resp.handled
    /\ resp.configured /\ resp.storeFailed
    /\ resp.at > 0
    /\ resp.answer.status = 429
    /\ resp.answer.headers.retryAfter = 60

(***************************************************************************)
(* Properties of the decoding and of the order of the checks of            *)
(* verifySessionToken.                                                     *)
(***************************************************************************)
\* s reads as an integer: after any leading spaces and one optional sign
\* comes a digit.
LeadingInteger(s) ==
    \E i \in 1..Len(s) :
        /\ \A j \in 1..(i - 1) : s[j] = " " \/ (j = i - 1 /\ s[j] \in {"+", "-"})
        /\ IsDigit(s[i])

\* value has exactly n fields, none empty, the second one reading as an
\* integer.
Shape(value, n) ==
    LET fields == Split(value, TOKEN_SEPARATOR)
    IN  /\ value # <<>>
        /\ Len(fields) = n
        /\ \A i \in 1..n : fields[i] # <<>>
        /\ LeadingInteger(fields[2])

EarlyErrors ==
    {"Missing session token", "Missing or invalid session cookie",
     "Malformed session token"}

\* C21: verifySessionToken reports the first failing check in the order:
\* header absent, cookie absent or undecodable, header undecodable; each of
\* the three is decided before the mismatch, expiry and signature checks.
C21_CheckOrder ==
    res.op = "verify"
    => LET header == res.request.header
           cookieOk == parseParts(res.request.cookie).ok
       IN  /\ header = <<>> => res.out.error = "Missing session token"
           /\ (header # <<>> /\ ~cookieOk)
              => res.out.error = "Missing or invalid session cookie"
           /\ (header # <<>> /\ cookieOk /\ ~Shape(header, 2))
              => res.out.error = "Malformed session token"
           /\ res.out.error \in EarlyErrors
              => ~res.out.valid /\ ~res.out.signed /\ ~res.out.threw
           /\ res.out.error \notin EarlyErrors
              => header # <<>> /\ cookieOk /\ Shape(header, 2)

\* A request with a malformed header and an undecodable cookie was answered
\* with the cookie's error.
C21_Witness ==
    /\ res.op = "verify"
    /\ res.request.header = <<"a">>
    /\ res.request.cookie = <<"a", ".", "0">>
    /\ res.out.error = "Missing or invalid session cookie"

\* C22: a cookie value decodes if and only if it splits into exactly 3
\* fields, none empty, whose issuedAt field parses as an integer; a header
\* value decodes if and only if it splits into exactly 2 such fields.  "Parses
\* as an integer" is what Number.parseInt(text, 10) does: it reads the
\* integer the text starts with.
C22_TokenDecoding ==
    res.op = "verify"
    => /\ parseParts(res.request.cookie).ok <=> Shape(res.request.cookie, 3)
       /\ res.request.header # <<>>
          => (res.out.error = "Missing or invalid session cookie"
              <=> ~Shape(res.request.cookie, 3))
       /\ (res.request.header # <<>> /\ Shape(res.request.cookie, 3))
          => (res.out.error = "Malformed session token"
              <=> ~Shape(res.request.header, 2))

\* A cookie of four fields was rejected as undecodable although its first
\* three fields are those of a decodable cookie.
C22_Witness ==
    /\ res.op = "verify"
    /\ res.request.header # <<>>
    /\ res.request.cookie = <<"a", ".", "0", ".", "z", ".", "z">>
    /\ res.out.error = "Missing or invalid session cookie"

\* C29: when the signing secret is absent, verifySessionToken accepts no
\* request: it returns valid = false with the reason of the failing check for
\* an absent header, an undecodable cookie or header, a mismatch or an
\* expiry, and fails with the configuration error for every request that
\* reaches the signature step.
C29_NoAcceptanceWithoutSecret ==
    (res.op = "verify" /\ secret = <<>>)
    => /\ ~res.out.valid
       /\ res.out.threw
          <=> /\ Decodable /\ Agree
              /\ res.at - ParseInt(CookieFields[2]).n <= SESSION_MAX_AGE_MS
       /\ res.out.threw => res.out.error = NoSecretError
       /\ ~res.out.threw
          => res.out.error \in EarlyErrors
                 \cup {"Session token mismatch", "Session token expired"}

\* Without a secret, a request whose header and cookie agree and are not
\* expired, with the signature the server would have made, failed with the
\* configuration error.
C29_Witness ==
    /\ res.op = "verify"
    /\ secret = <<>>
    /\ Decodable /\ Agree
    /\ CookieFields[3] =
           Hmac(ServerSecret,
                Join(<<CookieFields[1], NumberToString(ParseInt(CookieFields[2]).n),
                       getClientIdentifier(res.request)>>, TOKEN_SEPARATOR))
    /\ res.out.threw
    /\ res.out.error = NoSecretError

\* C27: for every request metadata getClientIdentifier returns a non-empty
\* string, also when a source field holds only the IPv4-mapped IPv6 prefix.
C27_IdentityNeverEmpty ==
    resolved.done => resolved.identifier # <<>>

ReplayIdentities == {getClientIdentifier(Request(meta, <<>>, <<>>)) : meta \in Metas}

\* The token and cookie issueSessionToken returns for sessionId sid at time t0
\* to a request of ClientIdentity id.
IssuedToken(sid, t0) == Join(<<sid, NumberToString(t0)>>, TOKEN_SEPARATOR)

IssuedCookie(sid, t0, id) ==
    Join(<<sid, NumberToString(t0),
           signValue(ServerSecret,
                     Join(<<sid, NumberToString(t0), id>>, TOKEN_SEPARATOR))>>,
         TOKEN_SEPARATOR)

\* The last operation was a verify of that token and cookie from identity id.
Presented(sid, t0, id) ==
    /\ res.op = "verify"
    /\ res.request.header = IssuedToken(sid, t0)
    /\ res.request.cookie = IssuedCookie(sid, t0, id)
    /\ getClientIdentifier(res.request) = id

\* C23: issueSessionToken and verifySessionToken keep no server-side state: a
\* token accepted once by verify is accepted again by every later verify from
\* the same ClientIdentity as long as now - issuedAt <= SESSION_MAX_AGE_MS,
\* whatever issue and verify calls happen in between.
C23_ReplayWithinLifetime ==
    \A sid \in SessionIds, t0 \in 0..MaxTime, id \in ReplayIdentities :
        []((Presented(sid, t0, id) /\ res.out.valid)
           => []((Presented(sid, t0, id) /\ res.at - t0 <= SESSION_MAX_AGE_MS)
                 => res.out.valid))

\* A session that is no longer new is accepted from its identity at the end
\* of its lifetime.
C23_Witness ==
    /\ PresentsHeld
    /\ getClientIdentifier(res.request) = held.clientId
    /\ res.at = held.issuedAt + SESSION_MAX_AGE_MS
    /\ res.out.valid
    /\ now > res.at

\* C24: a correctly signed token with matching header and cookie, presented
\* from the issuing ClientIdentity, is accepted at exactly now - issuedAt =
\* SESSION_MAX_AGE_MS and rejected with 'Session token expired' one millisecond
\* later.
C24_ExpiryBoundary ==
    (/\ PresentsHeld
     /\ getClientIdentifier(res.request) = held.clientId)
    => /\ res.at - held.issuedAt = SESSION_MAX_AGE_MS => res.out.valid
       /\ res.at - held.issuedAt = SESSION_MAX_AGE_MS + 1
          => /\ ~res.out.valid
             /\ res.out.error = "Session token expired"

\* A session is rejected as expired one millisecond after the end of its
\* lifetime.
C24_Witness ==
    /\ PresentsHeld
    /\ getClientIdentifier(res.request) = held.clientId
    /\ res.at - held.issuedAt = SESSION_MAX_AGE_MS + 1
    /\ res.out.error = "Session token expired"

\* C26: every (header, cookie) pair that verifySessionToken accepts is
\* character for character the (token, cookieValue) pair returned by an
\* earlier issueSessionToken call; no textual variant of an issued token, such
\* as an issuedAt field with leading zeros or trailing non-digit characters,
\* is accepted.
C26_AcceptedAreIssuedTexts ==
    (res.op = "verify" /\ res.out.valid)
    => /\ held.has
       /\ res.request.header = held.token
       /\ res.request.cookie = held.cookieValue

\* C26 as the code has it: every accepted (header, cookie) pair decodes to the
\* sessionId and issuedAt of an issued token and carries the signature of its
\* cookie; the issuedAt texts are any that Number.parseInt reads as the issued
\* integer.
C26_AcceptedDecodeToIssued ==
    (res.op = "verify" /\ res.out.valid)
    => /\ held.has
       /\ Len(HeaderFields) = 2
       /\ Len(CookieFields) = 3
       /\ HeaderFields[1] = held.sessionId
       /\ CookieFields[1] = held.sessionId
       /\ ParseInt(HeaderFields[2]) = [nan |-> FALSE, n |-> held.issuedAt]
       /\ ParseInt(CookieFields[2]) = [nan |-> FALSE, n |-> held.issuedAt]
       /\ CookieFields[3] = Split(held.cookieValue, TOKEN_SEPARATOR)[3]

\* A request is accepted whose header has the issuedAt of the session after a
\* zero and whose cookie has it before a letter.
C26_Witness ==
    /\ res.op = "verify"
    /\ res.out.valid
    /\ held.has
    /\ HeaderFields[2] = <<"0">> \o NumberToString(held.issuedAt)
    /\ CookieFields[2] = NumberToString(held.issuedAt) \o <<"x">>

(***************************************************************************)
(* Properties of the analyze handler past the admission check.             *)
(***************************************************************************)
\* The request was handled and checkRateLimit allowed it.
Admitted == resp.handled /\ resp.decision.success /\ ~resp.decision.threw

\* The body parses and has a post that is a non-empty string of at most 280
\* characters and a displayName that is a string, non-empty after trimming, of
\* at most 50 characters.
PostAndNameValid(body) ==
    /\ body.json
    /\ body.post.t = "string"
    /\ body.post.len \in 1..280
    /\ body.displayName.t = "string"
    /\ body.displayName.trimmed >= 1
    /\ body.displayName.len <= 50

AdmittedThenRejected ==
    Admitted /\ resp.answer.status \in {400, 500}

\* C28: the admission check, which uses up the identity's permit, happens
\* before the body is parsed and validated: a request that is then rejected
\* with status 400, or fails with 500, has consumed the permit, and the next
\* request from the same ClientIdentity inside the 30-second window is
\* answered 429.
C28_AdmissionBeforeValidation ==
    /\ [](AdmittedThenRejected
          => /\ resp.identity \in DOMAIN store
             /\ store[resp.identity] = resp.at)
    /\ [][(/\ AdmittedThenRejected
           /\ resp' # resp
           /\ resp'.identity = resp.identity
           /\ resp'.at - resp.at < RATE_LIMIT_WINDOW_MS
           /\ ~resp'.storeFailed)
          => /\ resp'.answer.status = 429
             /\ ~resp'.answer.scored
             /\ store' = store]_vars

\* A request whose body was rejected with status 400 holds the permit of its
\* identity, 20 seconds after another identity took its own.
C28_Witness ==
    /\ AdmittedThenRejected
    /\ resp.answer.status = 400
    /\ resp.at = 2 * TickMs
    /\ store[resp.identity] = resp.at
    /\ \E k \in DOMAIN store : k # resp.identity /\ store[k] = 0

====
